---- MODULE Spec2Model ----
(***************************************************************************)
(* A model of rusty-math (src/src/lib.rs): the Vec3 value type with its    *)
(* arithmetic, normalisation, dot and cross products, and Ray::point_at.   *)
(*                                                                         *)
(* Every field is an f64.  The properties of the library depend on the     *)
(* rounding of IEEE-754 binary64 arithmetic, so f64 is modelled bit for    *)
(* bit: a value is a sign, a 53-bit integer significand and an exponent,   *)
(* and +, -, *, / and sqrt are the correctly rounded (round to nearest,    *)
(* ties to even) operations with signed zeros, subnormals, infinities and  *)
(* NaN.  Significands do not fit the integers of the model checker; they   *)
(* are natural numbers held as little-endian sequences of 15-bit limbs.    *)
(***************************************************************************)
EXTENDS Integers, Sequences, FiniteSets, TLC

(***************************************************************************)
(* Natural numbers of arbitrary size: little-endian limbs, no leading      *)
(* zero limb, zero is the empty sequence.                                  *)
(***************************************************************************)
Base == 2 ^ 15
LimbBits == CHOOSE k \in 1..30 : 2 ^ k = Base

Limb(x, i) == IF i >= 1 /\ i <= Len(x) THEN x[i] ELSE 0

RECURSIVE NTrim(_)
NTrim(x) ==
    IF x = <<>> THEN x
    ELSE IF x[Len(x)] = 0 THEN NTrim(SubSeq(x, 1, Len(x) - 1))
    ELSE x

NMax(i, j) == IF i >= j THEN i ELSE j
NMin(i, j) == IF i <= j THEN i ELSE j

RECURSIVE NAddC(_, _, _, _)
NAddC(x, y, i, c) ==
    IF i > Len(x) /\ i > Len(y)
    THEN (IF c = 0 THEN <<>> ELSE <<c>>)
    ELSE LET t == Limb(x, i) + Limb(y, i) + c
         IN  <<t % Base>> \o NAddC(x, y, i + 1, t \div Base)

NAdd(x, y) == NAddC(x, y, 1, 0)

\* x - y for x >= y
RECURSIVE NSubC(_, _, _, _)
NSubC(x, y, i, c) ==
    IF i > Len(x) THEN <<>>
    ELSE LET t == x[i] - Limb(y, i) - c
         IN  IF t < 0 THEN <<t + Base>> \o NSubC(x, y, i + 1, 1)
             ELSE <<t>> \o NSubC(x, y, i + 1, 0)

NSub(x, y) == NTrim(NSubC(x, y, 1, 0))

\* -1, 0, 1 as x <, =, > y
RECURSIVE NCmpAt(_, _, _)
NCmpAt(x, y, i) ==
    IF i = 0 THEN 0
    ELSE IF x[i] < y[i] THEN -1
    ELSE IF x[i] > y[i] THEN 1
    ELSE NCmpAt(x, y, i - 1)

NCmp(x, y) ==
    IF Len(x) < Len(y) THEN -1
    ELSE IF Len(x) > Len(y) THEN 1
    ELSE NCmpAt(x, y, Len(x))

\* x * k + c for a limb-sized k and c
RECURSIVE NMulC(_, _, _, _)
NMulC(x, k, i, c) ==
    IF i > Len(x)
    THEN (IF c = 0 THEN <<>> ELSE <<c>>)
    ELSE LET t == x[i] * k + c
         IN  <<t % Base>> \o NMulC(x, k, i + 1, t \div Base)

NMulSmall(x, k) == IF k = 0 THEN <<>> ELSE NMulC(x, k, 1, 0)

NShlLimbs(x, q) ==
    IF x = <<>> THEN x
    ELSE [i \in 1..(Len(x) + q) |-> IF i <= q THEN 0 ELSE x[i - q]]

RECURSIVE NMulAt(_, _, _)
NMulAt(x, y, i) ==
    IF i > Len(x) THEN <<>>
    ELSE NAdd(NShlLimbs(NMulSmall(y, x[i]), i - 1), NMulAt(x, y, i + 1))

NMul(x, y) == NMulAt(x, y, 1)

\* x * 2^n
NShl(x, n) == NShlLimbs(NMulSmall(x, 2 ^ (n % LimbBits)), n \div LimbBits)

\* floor(x / 2^n)
NShr(x, n) ==
    LET q == n \div LimbBits
        r == n % LimbBits
    IN  IF q >= Len(x) THEN <<>>
        ELSE NTrim([i \in 1..(Len(x) - q) |->
                      (x[i + q] \div (2 ^ r))
                      + (Limb(x, i + q + 1) % (2 ^ r)) * (2 ^ (LimbBits - r))])

\* bit i of x, bit 0 the least significant
NBit(x, i) == (Limb(x, (i \div LimbBits) + 1) \div (2 ^ (i % LimbBits))) % 2

\* the bits of x below bit n are all zero
NLowZero(x, n) ==
    /\ \A i \in 1..NMin(n \div LimbBits, Len(x)) : x[i] = 0
    /\ Limb(x, (n \div LimbBits) + 1) % (2 ^ (n % LimbBits)) = 0

NBitLen(x) ==
    IF x = <<>> THEN 0
    ELSE LimbBits * (Len(x) - 1)
         + (CHOOSE k \in 1..LimbBits : 2 ^ (k - 1) <= x[Len(x)] /\ x[Len(x)] < 2 ^ k)

NOdd(x) == Limb(x, 1) % 2 = 1

\* Long division, one bit of the dividend at a time.  NDivBits takes the bits
\* b..0 of the limb w into the remainder r: <<quotient limb, remainder>>.
RECURSIVE NDivBits(_, _, _, _, _)
NDivBits(r, d, w, b, qd) ==
    IF b < 0 THEN <<qd, r>>
    ELSE LET r2 == NMulC(r, 2, 1, (w \div (2 ^ b)) % 2)
         IN  IF NCmp(r2, d) >= 0
             THEN NDivBits(NSub(r2, d), d, w, b - 1, 2 * qd + 1)
             ELSE NDivBits(r2, d, w, b - 1, 2 * qd)

\* limbs j..1 of n: <<quotient (untrimmed), remainder>>, given the remainder r
\* of the limbs above j
RECURSIVE NDivLimbs(_, _, _, _)
NDivLimbs(n, d, j, r) ==
    IF j = 0 THEN <<(<<>>), r>>
    ELSE LET step == NDivBits(r, d, n[j], LimbBits - 1, 0)
             low == NDivLimbs(n, d, j - 1, step[2])
         IN  <<low[1] \o <<step[1]>>, low[2]>>

\* <<floor(n / d), n mod d>> for d > 0
NDivMod(n, d) ==
    LET qr == NDivLimbs(n, d, Len(n), <<>>)
    IN  <<NTrim(qr[1]), qr[2]>>

\* floor(sqrt(n)), one bit of the root at a time: the bits b..lo of the root,
\* given its bits above b in r
RECURSIVE NSqrtBits(_, _, _, _)
NSqrtBits(n, r, b, lo) ==
    IF b < lo THEN r
    ELSE LET cand == NAdd(r, NShl(<<1>>, b))
         IN  IF NCmp(NMul(cand, cand), n) <= 0
             THEN NSqrtBits(n, cand, b - 1, lo)
             ELSE NSqrtBits(n, r, b - 1, lo)

RECURSIVE NSqrtLimbs(_, _, _)
NSqrtLimbs(n, r, j) ==
    IF j = 0 THEN r
    ELSE NSqrtLimbs(n, NSqrtBits(n, r, j * LimbBits - 1, (j - 1) * LimbBits), j - 1)

NSqrt(n) == NSqrtLimbs(n, <<>>, (Len(n) + 1) \div 2)

(***************************************************************************)
(* f64: IEEE-754 binary64.  A finite value is (-1)^s * m * 2^e with m a    *)
(* natural number below 2^Precision; it is kept canonical, so that equal   *)
(* values are equal records: m has exactly Precision bits, or e = MinExp   *)
(* (a subnormal, or zero when m = 0).                                      *)
(***************************************************************************)
Precision == 53
MinExp == -1074
MaxExp == 971

NaN == [k |-> "nan", s |-> 0, m |-> <<>>, e |-> 0]
Inf(s) == [k |-> "inf", s |-> s, m |-> <<>>, e |-> 0]
Zero(s) == [k |-> "fin", s |-> s, m |-> <<>>, e |-> MinExp]
Fin(s, m, e) == [k |-> "fin", s |-> s, m |-> m, e |-> e]

IsNaN(x) == x.k = "nan"
IsInf(x) == x.k = "inf"
IsFinite(x) == x.k = "fin"
IsZero(x) == x.k = "fin" /\ x.m = <<>>
SignXor(x, y) == (x.s + y.s) % 2

\* The nearest f64 to (-1)^s * (m + f) * 2^e, ties to even, where f = 0 when
\* sticky is FALSE and 0 < f < 1 otherwise; with the inexact flag of the rounding.
\* A sticky m always carries at least Precision + 2 bits.
RoundPack(s, m, e, sticky) ==
    IF m = <<>> /\ ~sticky THEN [v |-> Zero(s), inexact |-> FALSE]
    ELSE
    LET len == NBitLen(m)
        shift == NMax(len - Precision, MinExp - e)
    IN  IF shift <= 0
        THEN \* room to spare: exact, normalise downwards as far as MinExp
             LET k == NMin(Precision - len, e - MinExp)
             IN  IF e - k > MaxExp
                 THEN [v |-> Inf(s), inexact |-> TRUE]
                 ELSE [v |-> Fin(s, NShl(m, k), e - k), inexact |-> sticky]
        ELSE
        LET q == NShr(m, shift)
            half == NBit(m, shift - 1) = 1
            rest == sticky \/ ~NLowZero(m, shift - 1)
            up == half /\ (rest \/ NOdd(q))
            q1 == IF up THEN NAdd(q, <<1>>) ELSE q
            carry == NBitLen(q1) > Precision
            q2 == IF carry THEN NShr(q1, 1) ELSE q1
            e2 == IF carry THEN e + shift + 1 ELSE e + shift
        IN  IF e2 > MaxExp
            THEN [v |-> Inf(s), inexact |-> TRUE]
            ELSE [v |-> Fin(s, q2, e2), inexact |-> half \/ rest]

\* x + y with its inexact flag
AddFlag(x, y) ==
    IF IsNaN(x) \/ IsNaN(y) THEN [v |-> NaN, inexact |-> FALSE]
    ELSE IF IsInf(x) /\ IsInf(y)
         THEN [v |-> IF x.s = y.s THEN x ELSE NaN, inexact |-> FALSE]
    ELSE IF IsInf(x) THEN [v |-> x, inexact |-> FALSE]
    ELSE IF IsInf(y) THEN [v |-> y, inexact |-> FALSE]
    ELSE IF IsZero(x) /\ IsZero(y)
         THEN [v |-> IF x.s = y.s THEN x ELSE Zero(0), inexact |-> FALSE]
    ELSE IF IsZero(x) THEN [v |-> y, inexact |-> FALSE]
    ELSE IF IsZero(y) THEN [v |-> x, inexact |-> FALSE]
    ELSE
    LET hi == IF x.e >= y.e THEN x ELSE y
        lo == IF x.e >= y.e THEN y ELSE x
    IN  IF hi.e - lo.e > Precision + 3
        THEN \* lo is below an eighth of the last place of hi: it only rounds
             LET m == NShl(hi.m, 3)
             IN  IF hi.s = lo.s THEN RoundPack(hi.s, m, hi.e - 3, TRUE)
                 ELSE RoundPack(hi.s, NSub(m, <<1>>), hi.e - 3, TRUE)
        ELSE
        LET mh == NShl(hi.m, hi.e - lo.e)
            c == NCmp(mh, lo.m)
        IN  IF hi.s = lo.s THEN RoundPack(hi.s, NAdd(mh, lo.m), lo.e, FALSE)
            ELSE IF c = 0 THEN [v |-> Zero(0), inexact |-> FALSE]
            ELSE IF c > 0 THEN RoundPack(hi.s, NSub(mh, lo.m), lo.e, FALSE)
            ELSE RoundPack(lo.s, NSub(lo.m, mh), lo.e, FALSE)

FNeg(x) == IF IsNaN(x) THEN x ELSE [x EXCEPT !.s = 1 - x.s]

MulFlag(x, y) ==
    IF IsNaN(x) \/ IsNaN(y) THEN [v |-> NaN, inexact |-> FALSE]
    ELSE IF IsInf(x) \/ IsInf(y)
         THEN [v |-> IF IsZero(x) \/ IsZero(y) THEN NaN ELSE Inf(SignXor(x, y)),
               inexact |-> FALSE]
    ELSE RoundPack(SignXor(x, y), NMul(x.m, y.m), x.e + y.e, FALSE)

DivFlag(x, y) ==
    IF IsNaN(x) \/ IsNaN(y) THEN [v |-> NaN, inexact |-> FALSE]
    ELSE IF IsInf(x)
         THEN [v |-> IF IsInf(y) THEN NaN ELSE Inf(SignXor(x, y)), inexact |-> FALSE]
    ELSE IF IsInf(y) THEN [v |-> Zero(SignXor(x, y)), inexact |-> FALSE]
    ELSE IF IsZero(y)
         THEN [v |-> IF IsZero(x) THEN NaN ELSE Inf(SignXor(x, y)), inexact |-> FALSE]
    ELSE IF IsZero(x) THEN [v |-> Zero(SignXor(x, y)), inexact |-> FALSE]
    ELSE
    LET k == Precision + 3 + NBitLen(y.m) - NBitLen(x.m)
        qr == NDivMod(NShl(x.m, k), y.m)
    IN  RoundPack(SignXor(x, y), qr[1], x.e - k - y.e, qr[2] # <<>>)

SqrtFlag(x) ==
    IF IsNaN(x) THEN [v |-> NaN, inexact |-> FALSE]
    ELSE IF IsZero(x) THEN [v |-> x, inexact |-> FALSE]
    ELSE IF x.s = 1 THEN [v |-> NaN, inexact |-> FALSE]
    ELSE IF IsInf(x) THEN [v |-> x, inexact |-> FALSE]
    ELSE
    LET k0 == 2 * Precision + 4 - NBitLen(x.m)
        k == IF (x.e - k0) % 2 = 0 THEN k0 ELSE k0 + 1
        n == NShl(x.m, k)
        r == NSqrt(n)
    IN  RoundPack(0, r, (x.e - k) \div 2, NMul(r, r) # n)

FAdd(x, y) == AddFlag(x, y).v
FSub(x, y) == AddFlag(x, FNeg(y)).v
FMul(x, y) == MulFlag(x, y).v
FDiv(x, y) == DivFlag(x, y).v
FSqrt(x) == SqrtFlag(x).v

\* the == of f64: NaN equals nothing, the two zeros are equal
FEq(x, y) ==
    /\ ~IsNaN(x) /\ ~IsNaN(y)
    /\ (x = y \/ (IsZero(x) /\ IsZero(y)))

\* the f64 for a small integer
FInt(n) ==
    IF n = 0 THEN Zero(0)
    ELSE IF n < 0 THEN RoundPack(1, NMulC(<<1>>, 0 - n, 1, 0), 0, FALSE).v
    ELSE RoundPack(0, NMulC(<<1>>, n, 1, 0), 0, FALSE).v

One == FInt(1)
Pow2(p) == RoundPack(0, <<1>>, p, FALSE).v
MaxFloat == Fin(0, <<Base - 1, Base - 1, Base - 1, 255>>, MaxExp)
MinSubnormal == Fin(0, <<1>>, MinExp)

\* no value yet: what a result register holds before anything is stored in it
NoVal == [k |-> "none", s |-> 0, m |-> <<>>, e |-> 0]

(***************************************************************************)
(* Vec3 (lib.rs 15-155) and Ray (lib.rs 160-170).                          *)
(***************************************************************************)
Vec(x, y, z) == [x |-> x, y |-> y, z |-> z]
NoVec == Vec(NoVal, NoVal, NoVal)

length_squared(self) ==
    FAdd(FAdd(FMul(self.x, self.x), FMul(self.y, self.y)), FMul(self.z, self.z))

\* per-component division instead of one reciprocal
div_per_component(self, divisor) ==
    Vec(FDiv(self.x, divisor), FDiv(self.y, divisor), FDiv(self.z, divisor))

div(self, divisor) ==
    LET d == FDiv(One, divisor)
    IN  Vec(FMul(self.x, d), FMul(self.y, d), FMul(self.z, d))

\* the square root forgotten
normalize_by_length_squared(self) == div(self, length_squared(self))

normalize(self) == div(self, FSqrt(length_squared(self)))

\* the last term takes other.z for other.x
cross_typo(self, other) ==
    Vec(FSub(FMul(self.y, other.z), FMul(self.z, other.y)),
        FSub(FMul(self.z, other.x), FMul(self.x, other.z)),
        FSub(FMul(self.x, other.y), FMul(self.y, other.z)))

\* the left-handed product
cross_left_handed(self, other) ==
    Vec(FSub(FMul(self.z, other.y), FMul(self.y, other.z)),
        FSub(FMul(self.x, other.z), FMul(self.z, other.x)),
        FSub(FMul(self.y, other.x), FMul(self.x, other.y)))

cross(self, other) ==
    Vec(FSub(FMul(self.y, other.z), FMul(self.z, other.y)),
        FSub(FMul(self.z, other.x), FMul(self.x, other.z)),
        FSub(FMul(self.x, other.y), FMul(self.y, other.x)))

\* the last term takes other.y for other.z
dot_typo(self, other) ==
    FAdd(FAdd(FMul(self.x, other.x), FMul(self.y, other.y)), FMul(self.z, other.y))

dot(self, other) ==
    FAdd(FAdd(FMul(self.x, other.x), FMul(self.y, other.y)), FMul(self.z, other.z))

add(self, other) ==
    Vec(FAdd(self.x, other.x), FAdd(self.y, other.y), FAdd(self.z, other.z))

\* z takes other.y
add_assign_typo(self, other) ==
    [self EXCEPT !.x = FAdd(@, other.x), !.y = FAdd(@, other.y), !.z = FAdd(@, other.y)]

\* the value of self after self += other
add_assign(self, other) ==
    [self EXCEPT !.x = FAdd(@, other.x), !.y = FAdd(@, other.y), !.z = FAdd(@, other.z)]

\* the operands of z exchanged
sub_typo(self, other) ==
    Vec(FSub(self.x, other.x), FSub(self.y, other.y), FSub(other.z, self.z))

sub(self, other) ==
    Vec(FSub(self.x, other.x), FSub(self.y, other.y), FSub(self.z, other.z))

sub_assign(self, other) ==
    [self EXCEPT !.x = FSub(@, other.x), !.y = FSub(@, other.y), !.z = FSub(@, other.z)]

\* &Vec3 * f64
mul(self, scaler) ==
    Vec(FMul(self.x, scaler), FMul(self.y, scaler), FMul(self.z, scaler))

\* z scales v.y
mul_f64_typo(self, v) ==
    Vec(FMul(v.x, self), FMul(v.y, self), FMul(v.y, self))

\* f64 * &Vec3: self is the scalar
mul_f64(self, v) ==
    Vec(FMul(v.x, self), FMul(v.y, self), FMul(v.z, self))

mul_assign(self, scaler) ==
    [self EXCEPT !.x = FMul(@, scaler), !.y = FMul(@, scaler), !.z = FMul(@, scaler)]

\* a guard against the zero divisor
div_assign_guarded(self, divisor) ==
    IF IsZero(divisor) THEN self
    ELSE LET d == FDiv(One, divisor)
         IN  [self EXCEPT !.x = FMul(@, d), !.y = FMul(@, d), !.z = FMul(@, d)]

div_assign(self, divisor) ==
    LET d == FDiv(One, divisor)
    IN  [self EXCEPT !.x = FMul(@, d), !.y = FMul(@, d), !.z = FMul(@, d)]

Ray(origin, dir) == [origin |-> origin, dir |-> dir]

\* a negative t clamped to the origin
point_at_clamped(self, t) ==
    add(self.origin, mul(self.dir, IF IsFinite(t) /\ t.s = 1 THEN Zero(0) ELSE t))

point_at(self, t) == add(self.origin, mul(self.dir, t))

(***************************************************************************)
(* Inputs.  The library is pure functions and in-place operators on plain  *)
(* values, so a behaviour is: pick the operands, apply one operation to    *)
(* them, and possibly apply one more to the Vec3 the first returned, the   *)
(* shapes of the library's own tests (a.normalize().length_squared(),      *)
(* a.dot(&a.cross(&b)), &origin + &(&dir * t)).                            *)
(***************************************************************************)
MaxCoord == 1
MaxPow == 2

V3(i, j, k) == Vec(FInt(i), FInt(j), FInt(k))
Tenth == FDiv(One, FInt(10))

\* the operands of the unit tests (lib.rs 182-183, 284-285, 304-305)
TestVecs == {V3(1, 2, 3), V3(1, 10, 0), V3(0, 23, 0 - 12), V3(1, 1, 0), V3(0, 3, 0)}
GridVecs == {V3(i, j, k) : i \in 0..MaxCoord, j \in 0..MaxCoord, k \in 0..MaxCoord}
RoundingVecs ==
    {Vec(Tenth, FMul(FInt(2), Tenth), FMul(FInt(3), Tenth)),
     Vec(Pow2(Precision), One, FInt(0 - 1)),
     V3(3, 4, 0)}
ExtremeVecs ==
    {Vec(MaxFloat, MaxFloat, Zero(0)),
     Vec(MinSubnormal, Zero(0), One),
     Vec(Inf(0), Zero(0), One),
     Vec(NaN, One, FInt(2)),
     Vec(Zero(1), Zero(0), Zero(1))}

Vecs == TestVecs \cup GridVecs \cup RoundingVecs \cup ExtremeVecs
OtherVecs == TestVecs \cup RoundingVecs \cup ExtremeVecs
FewVecs == TestVecs \cup RoundingVecs
PairVecs == RoundingVecs \cup {V3(1, 2, 3)}
ScaleVecs == OtherVecs \cup {V3(0, 0, 0), V3(1, 1, 1), V3(0, 1, 1)}

PowersOfTwo == {Pow2(p) : p \in (0 - MaxPow)..MaxPow}
Scalars ==
    PowersOfTwo \cup
    {Zero(0), Zero(1), FInt(3), FInt(10), FInt(0 - 2), Tenth,
     Pow2(MaxExp + Precision - 1), MinSubnormal, Inf(0), NaN}
FewScalars == {Zero(0), One, FInt(3), FInt(0 - 2)}

VARIABLES
    a,      \* let mut a: Vec3, the receiver of the in-place operators
    b,      \* let b: Vec3, the other operand
    s,      \* the f64 operand: scaler, divisor, t
    c,      \* the Vec3 the last value-returning operation returned
    k,      \* the f64 the last operation returned
    op,     \* the last call: its name, its operands' names, and the call that
            \* made its receiver ("-" when the receiver is an input)
    recv,   \* the value of the last call's receiver when it was called
    other   \* the value of the last call's other operand

vars == <<a, b, s, c, k, op, recv, other>>

NoOp == [name |-> "new", recv |-> "-", other |-> "-", via |-> "-"]

Fresh ==
    /\ c = NoVec /\ k = NoVal /\ op = NoOp /\ recv = NoVec /\ other = NoVal

Init == a \in PairVecs /\ b \in PairVecs /\ s \in FewScalars /\ Fresh
InitVV == a \in Vecs /\ b \in OtherVecs /\ s = One /\ Fresh
InitVS == a \in ScaleVecs /\ b = V3(1, 2, 3) /\ s \in Scalars /\ Fresh
InitRay == a \in OtherVecs /\ b \in FewVecs /\ s \in Scalars /\ Fresh

\* the receivers a call can take now: the input a, or the Vec3 returned by a
\* call on the inputs
Receivers ==
    IF op.name = "new" THEN {"a"}
    ELSE IF op.via = "-" /\ c # NoVec THEN {"c"}
    ELSE {}

Val(n) == CASE n = "a" -> a [] n = "b" -> b [] n = "c" -> c

Call(name, r, o, ov) ==
    /\ op' = [name |-> name, recv |-> r, other |-> o,
              via |-> IF op.name = "new" THEN "-" ELSE op.name]
    /\ recv' = Val(r)
    /\ other' = ov

LengthSquared ==
    \E r \in Receivers :
        /\ k' = length_squared(Val(r))
        /\ Call("length_squared", r, "-", NoVal)
        /\ UNCHANGED <<a, b, s, c>>

Normalize ==
    \E r \in Receivers :
        /\ c' = normalize(Val(r))
        /\ Call("normalize", r, "-", NoVal)
        /\ UNCHANGED <<a, b, s, k>>

Cross ==
    \E r \in Receivers :
        /\ c' = cross(Val(r), b)
        /\ Call("cross", r, "b", b)
        /\ UNCHANGED <<a, b, s, k>>

\* a.dot(&b), c.dot(&b), and a.dot(&c), b.dot(&c) for a returned c
Dot ==
    \E r \in Receivers \cup {n \in {"a", "b"} : Receivers = {"c"}} :
        \E o \in (IF r = "c" \/ op.name = "new" THEN {"b"} ELSE {"c"}) :
            /\ k' = dot(Val(r), Val(o))
            /\ Call("dot", r, o, Val(o))
            /\ UNCHANGED <<a, b, s, c>>

Add ==
    \E r \in Receivers :
        /\ c' = add(Val(r), b)
        /\ Call("add", r, "b", b)
        /\ UNCHANGED <<a, b, s, k>>

AddAssign ==
    /\ op.name = "new"
    /\ a' = add_assign(a, b)
    /\ Call("add_assign", "a", "b", b)
    /\ UNCHANGED <<b, s, c, k>>

Sub ==
    \E r \in Receivers :
        /\ c' = sub(Val(r), b)
        /\ Call("sub", r, "b", b)
        /\ UNCHANGED <<a, b, s, k>>

SubAssign ==
    /\ op.name = "new"
    /\ a' = sub_assign(a, b)
    /\ Call("sub_assign", "a", "b", b)
    /\ UNCHANGED <<b, s, c, k>>

Mul ==
    \E r \in Receivers :
        /\ c' = mul(Val(r), s)
        /\ Call("mul", r, "s", s)
        /\ UNCHANGED <<a, b, s, k>>

MulF64 ==
    \E r \in Receivers :
        /\ c' = mul_f64(s, Val(r))
        /\ Call("mul_f64", r, "s", s)
        /\ UNCHANGED <<a, b, s, k>>

MulAssign ==
    /\ op.name = "new"
    /\ a' = mul_assign(a, s)
    /\ Call("mul_assign", "a", "s", s)
    /\ UNCHANGED <<b, s, c, k>>

Div ==
    \E r \in Receivers :
        /\ c' = div(Val(r), s)
        /\ Call("div", r, "s", s)
        /\ UNCHANGED <<a, b, s, k>>

DivAssign ==
    /\ op.name = "new"
    /\ a' = div_assign(a, s)
    /\ Call("div_assign", "a", "s", s)
    /\ UNCHANGED <<b, s, c, k>>

\* Ray {origin: a, dir: b}.point_at(s)
PointAt ==
    /\ op.name = "new"
    /\ c' = point_at(Ray(a, b), s)
    /\ Call("point_at", "a", "s", s)
    /\ UNCHANGED <<a, b, s, k>>

NextVV == Add \/ AddAssign \/ Sub \/ SubAssign \/ Cross \/ Dot
NextVS == LengthSquared \/ Normalize \/ Mul \/ MulF64 \/ MulAssign \/ Div \/ DivAssign
NextRay == PointAt
Next == NextVV \/ NextVS \/ NextRay

Spec == Init /\ [][Next]_vars
SpecVV == InitVV /\ [][NextVV]_vars
SpecVS == InitVS /\ [][NextVS]_vars
SpecRay == InitRay /\ [][NextRay]_vars

(***************************************************************************)
(* Vocabulary of the properties.                                           *)
(***************************************************************************)
\* the same value: equal as f64, or both NaN
SameF(x, y) == (IsNaN(x) /\ IsNaN(y)) \/ FEq(x, y)
SameVec(u, v) == SameF(u.x, v.x) /\ SameF(u.y, v.y) /\ SameF(u.z, v.z)
\* the derived PartialEq of Vec3 (lib.rs 15)
VecEq(u, v) == FEq(u.x, v.x) /\ FEq(u.y, v.y) /\ FEq(u.z, v.z)
VecNeg(v) == Vec(FNeg(v.x), FNeg(v.y), FNeg(v.z))
Components(v) == {v.x, v.y, v.z}
AllFinite(v) == \A x \in Components(v) : IsFinite(x)
IsZeroVec(v) == \A x \in Components(v) : IsZero(x)
InfOrNaN(v) == \A x \in Components(v) : IsInf(x) \/ IsNaN(x)
\* an operation that returned the exact real result
Exact(r) == ~r.inexact /\ IsFinite(r.v)
\* x <= y for finite x, y >= 0
LeqMagnitude(x, y) == x.e < y.e \/ (x.e = y.e /\ NCmp(x.m, y.m) <= 0)
IsPowerOfTwo(x) ==
    IsFinite(x) /\ x.s = 0 /\ x.m # <<>> /\ NLowZero(x.m, NBitLen(x.m) - 1)

(***************************************************************************)
(* C1.  Ray {origin: o, dir: d}.point_at(t) is o + d * t component-wise,   *)
(* (o.x + d.x*t, o.y + d.y*t, o.z + d.z*t), for negative, zero and         *)
(* positive t alike; (1,1,0) + (0,3,0) * 2 is (1,7,0).                     *)
(***************************************************************************)
PointAtIsOriginPlusDirTimesT ==
    op.name = "point_at" =>
        /\ c = Vec(FAdd(a.x, FMul(b.x, s)), FAdd(a.y, FMul(b.y, s)),
                   FAdd(a.z, FMul(b.z, s)))
        /\ (a = V3(1, 1, 0) /\ b = V3(0, 3, 0) /\ s = FInt(2) => c = V3(1, 7, 0))

PointAtNegativeT ==
    /\ op.name = "point_at" /\ a = V3(1, 1, 0) /\ b = V3(0, 3, 0)
    /\ s = FInt(0 - 2) /\ c = V3(1, 0 - 5, 0)

(***************************************************************************)
(* C2.  (a + b) - b equals a when the sum a + b is computed without        *)
(* rounding; a + b and a - b are the component-wise sum and difference,    *)
(* and a - a is (0,0,0).                                                   *)
(***************************************************************************)
AddIsExact(u, v) ==
    /\ Exact(AddFlag(u.x, v.x)) /\ Exact(AddFlag(u.y, v.y)) /\ Exact(AddFlag(u.z, v.z))

SubUndoesAdd ==
    /\ (op.name = "sub" /\ op.recv = "c" /\ op.via = "add" /\ AddIsExact(a, b))
            => VecEq(c, a)
    /\ op.name = "add" =>
            c = Vec(FAdd(recv.x, other.x), FAdd(recv.y, other.y), FAdd(recv.z, other.z))
    /\ op.name = "sub" =>
            c = Vec(FSub(recv.x, other.x), FSub(recv.y, other.y), FSub(recv.z, other.z))
    /\ (op.name = "sub" /\ recv = other /\ AllFinite(recv)) => VecEq(c, V3(0, 0, 0))

SubUndoesAddReached ==
    /\ op.name = "sub" /\ op.recv = "c" /\ op.via = "add"
    /\ a = V3(1, 10, 0) /\ b = V3(0, 23, 0 - 12)
    /\ recv = V3(1, 33, 0 - 12) /\ c = a

(***************************************************************************)
(* C3.  c = a.cross(b) is perpendicular to a and to b, a.dot(c) == 0 and   *)
(* b.dot(c) == 0, for non-degenerate a and b.                              *)
(***************************************************************************)
NonDegenerate(u, v) ==
    /\ AllFinite(u) /\ AllFinite(v)
    /\ AllFinite(cross(u, v)) /\ ~IsZeroVec(cross(u, v))

DotOfCross == op.name = "dot" /\ op.other = "c" /\ op.via = "cross"

\* C3 as claimed: for every non-degenerate a and b both dot products are 0
CrossIsPerpendicular ==
    (DotOfCross /\ NonDegenerate(a, b)) => FEq(k, Zero(0))

CrossIsExact(u, v) ==
    /\ Exact(MulFlag(u.y, v.z)) /\ Exact(MulFlag(u.z, v.y))
    /\ Exact(MulFlag(u.z, v.x)) /\ Exact(MulFlag(u.x, v.z))
    /\ Exact(MulFlag(u.x, v.y)) /\ Exact(MulFlag(u.y, v.x))
    /\ Exact(AddFlag(FMul(u.y, v.z), FNeg(FMul(u.z, v.y))))
    /\ Exact(AddFlag(FMul(u.z, v.x), FNeg(FMul(u.x, v.z))))
    /\ Exact(AddFlag(FMul(u.x, v.y), FNeg(FMul(u.y, v.x))))

DotIsExact(u, v) ==
    /\ Exact(MulFlag(u.x, v.x)) /\ Exact(MulFlag(u.y, v.y)) /\ Exact(MulFlag(u.z, v.z))
    /\ Exact(AddFlag(FMul(u.x, v.x), FMul(u.y, v.y)))
    /\ Exact(AddFlag(FAdd(FMul(u.x, v.x), FMul(u.y, v.y)), FMul(u.z, v.z)))

\* C3 as amended: both dot products are 0 when no product, difference or sum
\* of the cross product and of the dot product rounds or overflows
CrossIsPerpendicularWhenExact ==
    (DotOfCross /\ NonDegenerate(a, b) /\ CrossIsExact(a, b) /\ DotIsExact(recv, other))
        => FEq(k, Zero(0))

CrossIsPerpendicularReached ==
    /\ DotOfCross /\ op.recv = "b"
    /\ a = V3(1, 10, 0) /\ b = V3(0, 23, 0 - 12)
    /\ other = V3(0 - 120, 12, 23) /\ k = Zero(0)

(***************************************************************************)
(* C4.  s * a == a * s for every scalar s and Vec3 a, and both are         *)
(* (a.x*s, a.y*s, a.z*s).                                                  *)
(***************************************************************************)
ScaleOrderIndependent ==
    /\ op.name = "mul" =>
        /\ c = Vec(FMul(recv.x, other), FMul(recv.y, other), FMul(recv.z, other))
        /\ SameVec(c, mul_f64(other, recv))
    /\ op.name = "mul_f64" =>
        /\ c = Vec(FMul(recv.x, other), FMul(recv.y, other), FMul(recv.z, other))
        /\ SameVec(c, mul(recv, other))

ScaleOrderIndependentReached ==
    /\ op.name = "mul_f64" /\ recv = V3(1, 2, 3) /\ other = FInt(3)
    /\ c = V3(3, 6, 9)

(***************************************************************************)
(* C5.  a.dot(b) == b.dot(a) for all a and b, with a.dot(b) =              *)
(* a.x*b.x + a.y*b.y + a.z*b.z; (1,2,3).dot((1,2,3)) is 14.                *)
(***************************************************************************)
DotCommutes ==
    op.name = "dot" =>
        /\ SameF(k, dot(other, recv))
        /\ k = FAdd(FAdd(FMul(recv.x, other.x), FMul(recv.y, other.y)),
                    FMul(recv.z, other.z))
        /\ (recv = V3(1, 2, 3) /\ other = V3(1, 2, 3) => k = FInt(14))

DotCommutesReached ==
    /\ op.name = "dot" /\ recv = V3(1, 10, 0) /\ other = V3(0, 23, 0 - 12)
    /\ k = FInt(230)

(***************************************************************************)
(* C6.  a.normalize().length_squared() == 1.0 for any non-zero a, where    *)
(* normalize is a / sqrt(a.length_squared()); exactly 1.0 for (1,2,3).     *)
(***************************************************************************)
LengthSquaredOfNormalized ==
    /\ op.name = "length_squared" /\ op.via = "normalize"
    /\ AllFinite(a) /\ ~IsZeroVec(a)

\* C6 as claimed: exactly 1.0 for every finite non-zero a
NormalizedHasLengthOne ==
    LengthSquaredOfNormalized => FEq(k, One)

\* a component that is zero or of magnitude in [2^-500, 2^500]: neither its
\* square nor any intermediate of normalize overflows or underflows
Moderate(x) == IsZero(x) \/ (IsFinite(x) /\ x.e >= -552 /\ x.e <= 447)
Tolerance == Pow2(-49)
Near(x, y, tol) == IsFinite(x) /\ LeqMagnitude([FSub(x, y) EXCEPT !.s = 0], tol)

\* C6 as amended: within 2^-49 of 1.0 for a non-zero a of moderate components,
\* and exactly 1.0 for (1,2,3)
NormalizedHasLengthNearOne ==
    /\ (LengthSquaredOfNormalized /\ \A x \in Components(a) : Moderate(x))
            => Near(k, One, Tolerance)
    /\ (LengthSquaredOfNormalized /\ a = V3(1, 2, 3)) => FEq(k, One)
    /\ op.name = "normalize" => c = div(recv, FSqrt(length_squared(recv)))

NormalizedHasLengthOneReached ==
    /\ op.name = "length_squared" /\ op.via = "normalize"
    /\ a = V3(1, 2, 3) /\ recv # a /\ k = One

(***************************************************************************)
(* C7.  (a * s) / s equals a exactly when s is a power of two (1          *)
(* included); division multiplies each component by the reciprocal         *)
(* 1/divisor, computed once, so a / 1 == a.                                *)
(***************************************************************************)
DivOfMul == op.name = "div" /\ op.recv = "c" /\ op.via = "mul"

DivIsReciprocalMultiply ==
    /\ op.name = "div" =>
            c = Vec(FMul(recv.x, FDiv(One, other)), FMul(recv.y, FDiv(One, other)),
                    FMul(recv.z, FDiv(One, other)))
    /\ (op.name = "div" /\ other = One) => SameVec(c, recv)

\* C7 as claimed: (a * s) / s == a for every finite a and power of two s
DivUndoesMulByPowerOfTwo ==
    /\ (DivOfMul /\ IsPowerOfTwo(s) /\ AllFinite(a)) => VecEq(c, a)
    /\ DivIsReciprocalMultiply

MulIsExact(v, x) ==
    Exact(MulFlag(v.x, x)) /\ Exact(MulFlag(v.y, x)) /\ Exact(MulFlag(v.z, x))

\* C7 as amended: (a * s) / s == a for a power of two s when a * s neither
\* overflows nor underflows and 1/s is finite; a / s is a times the reciprocal
DivUndoesExactMulByPowerOfTwo ==
    /\ (DivOfMul /\ IsPowerOfTwo(s) /\ MulIsExact(a, s) /\ IsFinite(FDiv(One, s)))
            => VecEq(c, a)
    /\ DivIsReciprocalMultiply

DivUndoesMulReached ==
    /\ DivOfMul /\ a = V3(1, 2, 3) /\ s = FInt(4)
    /\ recv = V3(4, 8, 12) /\ c = a

(***************************************************************************)
(* C8.  Division by zero raises nothing: divide and divide-in-place by 0,  *)
(* and normalize of the zero vector, return a Vec3 whose components are    *)
(* infinite or NaN; nothing on the path guards or rejects the input.       *)
(***************************************************************************)
DivisionByZeroIsInfOrNaN ==
    /\ (op.name = "div" /\ IsZero(other)) => InfOrNaN(c)
    /\ (op.name = "div_assign" /\ IsZero(other)) => InfOrNaN(a)
    /\ (op.name = "normalize" /\ IsZeroVec(recv)) => InfOrNaN(c)

DivisionByZeroReached ==
    /\ op.name = "div" /\ other = Zero(0) /\ recv = V3(1, 2, 3)
    /\ c = Vec(Inf(0), Inf(0), Inf(0))

(***************************************************************************)
(* C9.  a.cross(b) = (a.y*b.z - a.z*b.y, a.z*b.x - a.x*b.z,                *)
(* a.x*b.y - a.y*b.x), and a.cross(b) is the negation of b.cross(a); hence *)
(* a.cross(a) is the zero vector.                                          *)
(***************************************************************************)
CrossIsRightHandedAndAntiCommutes ==
    op.name = "cross" =>
        /\ c = Vec(FSub(FMul(recv.y, other.z), FMul(recv.z, other.y)),
                   FSub(FMul(recv.z, other.x), FMul(recv.x, other.z)),
                   FSub(FMul(recv.x, other.y), FMul(recv.y, other.x)))
        /\ SameVec(c, VecNeg(cross(other, recv)))

\* C9 as claimed: the formula, anti-commutativity, and a.cross(a) zero for
\* every finite a
CrossAntiCommutes ==
    /\ CrossIsRightHandedAndAntiCommutes
    /\ (op.name = "cross" /\ recv = other /\ AllFinite(recv)) => IsZeroVec(c)

ProductsFinite(v) ==
    IsFinite(FMul(v.y, v.z)) /\ IsFinite(FMul(v.z, v.x)) /\ IsFinite(FMul(v.x, v.y))

\* C9 as amended: the formula, anti-commutativity, and a.cross(a) zero when the
\* products of a's components are finite
CrossAntiCommutesFinite ==
    /\ CrossIsRightHandedAndAntiCommutes
    /\ (op.name = "cross" /\ recv = other /\ ProductsFinite(recv)) => IsZeroVec(c)

CrossAntiCommutesReached ==
    /\ op.name = "cross" /\ recv = V3(1, 10, 0) /\ other = V3(0, 23, 0 - 12)
    /\ c = V3(0 - 120, 12, 23)

(***************************************************************************)
(* C10.  After a += b, a -= b, a *= s, a /= s the receiver holds what      *)
(* a + b, a - b, a * s, a / s return for the value a had before, and b is  *)
(* unchanged; the non-mutating forms change neither operand.               *)
(***************************************************************************)
InPlaceAgreesWithPure ==
    /\ op.name = "add_assign" => a = add(recv, other) /\ b = other
    /\ op.name = "sub_assign" => a = sub(recv, other) /\ b = other
    /\ op.name = "mul_assign" => a = mul(recv, other) /\ s = other
    /\ op.name = "div_assign" => a = div(recv, other) /\ s = other
    /\ (op.name \in {"add", "sub"} /\ op.recv = "a") => a = recv /\ b = other
    /\ (op.name \in {"mul", "mul_f64", "div"} /\ op.recv = "a") => a = recv /\ s = other

InPlaceAgreesReached ==
    /\ op.name = "add_assign" /\ recv = V3(1, 2, 3) /\ other = V3(1, 2, 3)
    /\ a = V3(2, 4, 6) /\ b = V3(1, 2, 3)

====
